---- MODULE Spec2Model ----
(***************************************************************************)
(* Model of the NebulaPrime node supervisor of titancore_free.             *)
(*                                                                         *)
(* Two variants of the supervisor exist in the repository:                 *)
(*   "full"  src/nebula.py      (anomaly counter, kill switch, heartbeat)  *)
(*   "free"  src/src/nebula.py  (no anomaly counter, no kill switch)       *)
(* The variant is fixed in the initial state.  Every handler is split at   *)
(* the points where another thread of the same process can observe the     *)
(* object (one step per attribute read or write), so the same actions      *)
(* serve the single-threaded specification Spec and the two-caller         *)
(* specification SpecConc.                                                 *)
(***************************************************************************)
EXTENDS Integers, Sequences, FiniteSets, TLC

VARIABLES
    variant,        \* which source file is running: "full" or "free"
    cfgReadable,    \* input: can the configuration file be opened and parsed
    rawConfig,      \* input: the mapping stored in the configuration file
    coreInitOk,     \* input: does core.SovereignEngine(...) construct
    proc,           \* "running" or "exited"
    exitStatus,     \* process exit status, -1 while running
    obj,            \* "none" until __init__ returned, then "bound"
    pc,             \* per thread: position in the handler it executes
    exc,            \* per thread: exception propagating to the caller
    attrs,          \* attributes present on self
    config,         \* self.config: key -> origin of the value
    is_active,      \* self.is_active
    anomaly_count,  \* self.anomaly_count
    tmp,            \* per thread: value loaded by `self.anomaly_count += 1`
    args,           \* per thread: (data, pk) of the call in flight
    result,         \* per thread: what the last execute_vault call gave its caller
    ksTrace,        \* per thread: side effects done by its _kill_switch call
    heartbeat,      \* last payload built by emit_heartbeat
    succs,          \* history: vault_execute invocations that returned
    fails,          \* history: vault_execute invocations that raised
    killCount,      \* history: number of _kill_switch invocations
    releaseCount,   \* history: number of executed `del self.engine`
    coreInits,      \* history: number of core.SovereignEngine(...) calls
    interrupted,    \* history: a KeyboardInterrupt was handled by run_forever
    succAfterFail   \* history: some call succeeded after an earlier failure

vars == << variant, cfgReadable, rawConfig, coreInitOk, proc, exitStatus, obj,
           pc, exc, attrs, config, is_active, anomaly_count, tmp, args, result,
           ksTrace, heartbeat, succs, fails, killCount, releaseCount, coreInits,
           interrupted, succAfterFail >>

-----------------------------------------------------------------------------
(* Bounds of the model *)

MaxSuccs == 2

MaxFails == 7

-----------------------------------------------------------------------------
(* Program constants *)

MAX_ANOMALY_SCORE == 5

REQUIRED_KEYS == {"node_id", "hw_id"}

DEFAULTS ==
    [v \in {"full", "free"} |->
        IF v = "full"
        THEN [k \in {"audit_log", "heartbeat_url"} |-> "default"]
        ELSE [k \in {"audit_log"} |-> "default"]]

Variants == {"full", "free"}

Threads == {"main", "worker"}

SeqThreads == {"main"}

RawKeys == {"node_id", "hw_id", "audit_log"}

RawConfigs == UNION {[S -> {"user"}] : S \in SUBSET RawKeys}

Data == {"d1", "d2"}

PublicKeys == {"k1"}

EmptyMap == [k \in {} |-> "default"]

NoArgs == [data |-> "none", pk |-> "none"]

NoResult == [kind |-> "none", status |-> "none", payload |-> "none", audit_ref |-> "none"]

NoHeartbeat == [node |-> "none", status |-> "none", anomalies |-> -1]

-----------------------------------------------------------------------------
(* Pure helpers *)

\* {**NebulaConfig.DEFAULTS, **raw_config}: supplied values take precedence
MergeConfig(defaults, raw) ==
    [k \in (DOMAIN defaults) \cup (DOMAIN raw) |->
        IF k \in DOMAIN raw THEN raw[k] ELSE defaults[k]]

\* a validation that forgets hw_id
MissingKeysNodeIdOnly(cfg) == {k \in {"node_id"} : k \notin DOMAIN cfg}

\* [k for k in REQUIRED_KEYS if k not in self.config]
MissingKeys(cfg) == {k \in REQUIRED_KEYS : k \notin DOMAIN cfg}

\* exit status of the interpreter when exception e reaches the top level
ExitStatusOf(e) ==
    CASE e = "SystemExit(1)" -> 1
      [] e = "SystemExit(NODE_LOCKED)" -> 1
      [] OTHER -> 1

\* the deterministic vault core stub: (ct, pqc_ct, ref) for (data, pk)
VaultExecute(data, pk) ==
    [ct |-> <<"ct", data, pk>>, pqc_ct |-> <<"pqc", data, pk>>, ref |-> <<"ref", data, pk>>]

\* an off-by-one threshold test that locks one failure early
ThresholdReachedEarly(n) == n >= MAX_ANOMALY_SCORE - 1

\* a strict threshold test that locks one failure late
ThresholdReachedStrict(n) == n > MAX_ANOMALY_SCORE

\* self.anomaly_count >= NebulaConfig.MAX_ANOMALY_SCORE
ThresholdReached(n) == n >= MAX_ANOMALY_SCORE

Running == proc = "running"

-----------------------------------------------------------------------------
(* Initial state: the process has started, NebulaPrime(config_path) is about *)
(* to be called on the main thread.                                         *)

Init ==
    /\ variant \in Variants
    /\ cfgReadable \in BOOLEAN
    /\ rawConfig \in RawConfigs
    /\ coreInitOk \in BOOLEAN
    /\ proc = "running"
    /\ exitStatus = -1
    /\ obj = "none"
    /\ pc = [t \in Threads |-> IF t = "main" THEN "init_load" ELSE "idle"]
    /\ exc = [t \in Threads |-> "none"]
    /\ attrs = {}
    /\ config = EmptyMap
    /\ is_active = FALSE
    /\ anomaly_count = 0
    /\ tmp = [t \in Threads |-> 0]
    /\ args = [t \in Threads |-> NoArgs]
    /\ result = [t \in Threads |-> NoResult]
    /\ ksTrace = [t \in Threads |-> << >>]
    /\ heartbeat = NoHeartbeat
    /\ succs = 0
    /\ fails = 0
    /\ killCount = 0
    /\ releaseCount = 0
    /\ coreInits = 0
    /\ interrupted = FALSE
    /\ succAfterFail = FALSE

-----------------------------------------------------------------------------
(* Raising: the handler of thread t is left with exception e *)

Raise(t, e) ==
    /\ pc' = [pc EXCEPT ![t] = "raised"]
    /\ exc' = [exc EXCEPT ![t] = e]

Goto(t, l) ==
    /\ pc' = [pc EXCEPT ![t] = l]
    /\ exc' = exc

-----------------------------------------------------------------------------
(* NebulaPrime.__init__ *)

\* raw_config = self._load_json(config_path); self.config = {**DEFAULTS, **raw_config}
LoadJson(t) ==
    /\ Running /\ pc[t] = "init_load"
    /\ IF cfgReadable
       THEN /\ config' = MergeConfig(DEFAULTS[variant], rawConfig)
            /\ attrs' = attrs \cup {"config"}
            /\ Goto(t, "init_validate")
       ELSE /\ Raise(t, IF variant = "full" THEN "SystemExit(1)" ELSE "LoadError")
            /\ UNCHANGED << config, attrs >>
    /\ UNCHANGED << variant, cfgReadable, rawConfig, coreInitOk, proc, exitStatus,
                    obj, is_active, anomaly_count, tmp, args, result, ksTrace,
                    heartbeat, succs, fails, killCount, releaseCount, coreInits,
                    interrupted, succAfterFail >>

\* self._validate_config()
ValidateConfig(t) ==
    /\ Running /\ pc[t] = "init_validate"
    /\ IF MissingKeys(config) # {}
       THEN Raise(t, IF variant = "full" THEN "SystemExit(1)" ELSE "ValueError")
       ELSE Goto(t, "init_fields")
    /\ UNCHANGED << variant, cfgReadable, rawConfig, coreInitOk, proc, exitStatus,
                    obj, attrs, config, is_active, anomaly_count, tmp, args,
                    result, ksTrace, heartbeat, succs, fails, killCount,
                    releaseCount, coreInits, interrupted, succAfterFail >>

\* the node is marked active before the vault core is constructed
CtorFieldsActiveEarly(t) ==
    /\ Running /\ pc[t] = "init_fields"
    /\ attrs' = attrs \cup (IF variant = "full"
                            THEN {"logger", "is_active", "anomaly_count"}
                            ELSE {"logger", "is_active"})
    /\ is_active' = TRUE
    /\ anomaly_count' = 0
    /\ Goto(t, "init_core")
    /\ UNCHANGED << variant, cfgReadable, rawConfig, coreInitOk, proc, exitStatus,
                    obj, config, tmp, args, result, ksTrace, heartbeat, succs,
                    fails, killCount, releaseCount, coreInits, interrupted,
                    succAfterFail >>

\* self.logger = setup_logger(...); self.is_active = False; self.anomaly_count = 0
CtorFields(t) ==
    /\ Running /\ pc[t] = "init_fields"
    /\ attrs' = attrs \cup (IF variant = "full"
                            THEN {"logger", "is_active", "anomaly_count"}
                            ELSE {"logger", "is_active"})
    /\ is_active' = FALSE
    /\ anomaly_count' = 0
    /\ Goto(t, "init_core")
    /\ UNCHANGED << variant, cfgReadable, rawConfig, coreInitOk, proc, exitStatus,
                    obj, config, tmp, args, result, ksTrace, heartbeat, succs,
                    fails, killCount, releaseCount, coreInits, interrupted,
                    succAfterFail >>

\* self.engine = self._init_sovereign_core()
InitSovereignCore(t) ==
    /\ Running /\ pc[t] = "init_core"
    /\ coreInits' = coreInits + 1
    /\ IF coreInitOk
       THEN /\ attrs' = attrs \cup {"engine"}
            /\ Goto(t, "init_activate")
       ELSE /\ Raise(t, "InitError")
            /\ attrs' = attrs
    /\ UNCHANGED << variant, cfgReadable, rawConfig, coreInitOk, proc, exitStatus,
                    obj, config, is_active, anomaly_count, tmp, args, result,
                    ksTrace, heartbeat, succs, fails, killCount, releaseCount,
                    interrupted, succAfterFail >>

\* self.is_active = True; __init__ returns and the caller holds the object
CtorActivate(t) ==
    /\ Running /\ pc[t] = "init_activate"
    /\ is_active' = TRUE
    /\ obj' = "bound"
    /\ Goto(t, "idle")
    /\ UNCHANGED << variant, cfgReadable, rawConfig, coreInitOk, proc, exitStatus,
                    attrs, config, anomaly_count, tmp, args, result, ksTrace,
                    heartbeat, succs, fails, killCount, releaseCount, coreInits,
                    interrupted, succAfterFail >>

Construct(t) ==
    \/ LoadJson(t)
    \/ ValidateConfig(t)
    \/ CtorFields(t)
    \/ InitSovereignCore(t)
    \/ CtorActivate(t)

-----------------------------------------------------------------------------
(* What the caller of execute_vault receives *)

ReturnNone == [kind |-> "return", status |-> "None", payload |-> "none", audit_ref |-> "none"]

ReturnSuccess(r) ==
    [kind |-> "return", status |-> "SUCCESS", payload |-> r.ct, audit_ref |-> r.ref]

Raised(e) == [kind |-> "raise", status |-> e, payload |-> "none", audit_ref |-> "none"]

-----------------------------------------------------------------------------
(* NebulaPrime.execute_vault *)

\* an entry that forgets the is_active test
ExecuteVaultCallUngated(t, d, k) ==
    /\ Running /\ obj = "bound" /\ pc[t] = "idle"
    /\ IF FALSE
       THEN /\ result' = [result EXCEPT ![t] = ReturnNone]
            /\ args' = args
            /\ Goto(t, "idle")
       ELSE /\ result' = [result EXCEPT ![t] = NoResult]
            /\ args' = [args EXCEPT ![t] = [data |-> d, pk |-> k]]
            /\ Goto(t, "ev_try")
    /\ UNCHANGED << variant, cfgReadable, rawConfig, coreInitOk, proc, exitStatus,
                    obj, attrs, config, is_active, anomaly_count, tmp, ksTrace,
                    heartbeat, succs, fails, killCount, releaseCount, coreInits,
                    interrupted, succAfterFail >>

\* entry and `if not self.is_active: return None`
ExecuteVaultCall(t, d, k) ==
    /\ Running /\ obj = "bound" /\ pc[t] = "idle"
    /\ IF ~is_active
       THEN /\ result' = [result EXCEPT ![t] = ReturnNone]
            /\ args' = args
            /\ Goto(t, "idle")
       ELSE /\ result' = [result EXCEPT ![t] = NoResult]
            /\ args' = [args EXCEPT ![t] = [data |-> d, pk |-> k]]
            /\ Goto(t, "ev_try")
    /\ UNCHANGED << variant, cfgReadable, rawConfig, coreInitOk, proc, exitStatus,
                    obj, attrs, config, is_active, anomaly_count, tmp, ksTrace,
                    heartbeat, succs, fails, killCount, releaseCount, coreInits,
                    interrupted, succAfterFail >>

\* where a failure inside the try block continues: the except clause of the
\* full variant; the free variant has no try and the error leaves the method
AfterVaultError(t, e) ==
    IF variant = "full"
    THEN /\ Goto(t, "ev_load")
         /\ result' = result
    ELSE /\ Raise(t, e)
         /\ result' = [result EXCEPT ![t] = Raised(e)]

\* a success that resets the anomaly counter
EvCoreSuccessResets(t) ==
    /\ Running /\ pc[t] = "ev_try" /\ "engine" \in attrs
    /\ succs < MaxSuccs
    /\ succs' = succs + 1
    /\ anomaly_count' = 0
    /\ succAfterFail' = (succAfterFail \/ fails > 0)
    /\ result' = [result EXCEPT ![t] = ReturnSuccess(VaultExecute(args[t].data, args[t].pk))]
    /\ args' = [args EXCEPT ![t] = NoArgs]
    /\ Goto(t, "idle")
    /\ UNCHANGED << variant, cfgReadable, rawConfig, coreInitOk, proc, exitStatus,
                    obj, attrs, config, is_active, tmp, ksTrace,
                    heartbeat, fails, killCount, releaseCount, coreInits,
                    interrupted >>

\* a success whose audit reference depends on the failures that came before
EvCoreSuccessStateful(t) ==
    /\ Running /\ pc[t] = "ev_try" /\ "engine" \in attrs
    /\ succs < MaxSuccs
    /\ succs' = succs + 1
    /\ succAfterFail' = (succAfterFail \/ fails > 0)
    /\ result' = [result EXCEPT ![t] =
          [ReturnSuccess(VaultExecute(args[t].data, args[t].pk))
              EXCEPT !.audit_ref =
                  <<"ref", args[t].data, IF fails > 0 THEN "after-anomaly" ELSE args[t].pk>>]]
    /\ args' = [args EXCEPT ![t] = NoArgs]
    /\ Goto(t, "idle")
    /\ UNCHANGED << variant, cfgReadable, rawConfig, coreInitOk, proc, exitStatus,
                    obj, attrs, config, is_active, anomaly_count, tmp, ksTrace,
                    heartbeat, fails, killCount, releaseCount, coreInits,
                    interrupted >>

\* a success in which src/src/nebula.py returns res[1] as the payload
EvCoreSuccessFreeIndex(t) ==
    /\ Running /\ pc[t] = "ev_try" /\ "engine" \in attrs
    /\ succs < MaxSuccs
    /\ succs' = succs + 1
    /\ succAfterFail' = (succAfterFail \/ fails > 0)
    /\ result' = [result EXCEPT ![t] =
          IF variant = "free"
          THEN [ReturnSuccess(VaultExecute(args[t].data, args[t].pk))
                  EXCEPT !.payload = VaultExecute(args[t].data, args[t].pk).pqc_ct]
          ELSE ReturnSuccess(VaultExecute(args[t].data, args[t].pk))]
    /\ args' = [args EXCEPT ![t] = NoArgs]
    /\ Goto(t, "idle")
    /\ UNCHANGED << variant, cfgReadable, rawConfig, coreInitOk, proc, exitStatus,
                    obj, attrs, config, is_active, anomaly_count, tmp, ksTrace,
                    heartbeat, fails, killCount, releaseCount, coreInits,
                    interrupted >>

\* self.engine.vault_execute(data, pk) returns (ct, pqc_ct, ref)
EvCoreSuccess(t) ==
    /\ Running /\ pc[t] = "ev_try" /\ "engine" \in attrs
    /\ succs < MaxSuccs
    /\ succs' = succs + 1
    /\ succAfterFail' = (succAfterFail \/ fails > 0)
    /\ result' = [result EXCEPT ![t] = ReturnSuccess(VaultExecute(args[t].data, args[t].pk))]
    /\ args' = [args EXCEPT ![t] = NoArgs]
    /\ Goto(t, "idle")
    /\ UNCHANGED << variant, cfgReadable, rawConfig, coreInitOk, proc, exitStatus,
                    obj, attrs, config, is_active, anomaly_count, tmp, ksTrace,
                    heartbeat, fails, killCount, releaseCount, coreInits,
                    interrupted >>

\* self.engine.vault_execute(data, pk) raises: the vault core fails, or the
\* attribute lookup self.engine fails because the handle was deleted
EvVaultRaises(t) ==
    /\ Running /\ pc[t] = "ev_try"
    /\ IF "engine" \in attrs
       THEN /\ fails < MaxFails
            /\ fails' = fails + 1
            /\ AfterVaultError(t, "CoreError")
       ELSE /\ fails' = fails
            /\ AfterVaultError(t, "AttributeError")
    /\ args' = [args EXCEPT ![t] = NoArgs]
    /\ UNCHANGED << variant, cfgReadable, rawConfig, coreInitOk, proc, exitStatus,
                    obj, attrs, config, is_active, anomaly_count, tmp, ksTrace,
                    heartbeat, succs, killCount, releaseCount, coreInits,
                    interrupted, succAfterFail >>

\* self.anomaly_count += 1, the load
EvLoadCount(t) ==
    /\ Running /\ pc[t] = "ev_load"
    /\ tmp' = [tmp EXCEPT ![t] = anomaly_count]
    /\ Goto(t, "ev_store")
    /\ UNCHANGED << variant, cfgReadable, rawConfig, coreInitOk, proc, exitStatus,
                    obj, attrs, config, is_active, anomaly_count, args, result,
                    ksTrace, heartbeat, succs, fails, killCount, releaseCount,
                    coreInits, interrupted, succAfterFail >>

\* self.anomaly_count += 1, the store
EvStoreCount(t) ==
    /\ Running /\ pc[t] = "ev_store"
    /\ anomaly_count' = tmp[t] + 1
    /\ Goto(t, "ev_check")
    /\ UNCHANGED << variant, cfgReadable, rawConfig, coreInitOk, proc, exitStatus,
                    obj, attrs, config, is_active, tmp, args, result, ksTrace,
                    heartbeat, succs, fails, killCount, releaseCount, coreInits,
                    interrupted, succAfterFail >>

\* if self.anomaly_count >= MAX_ANOMALY_SCORE: self._kill_switch(); return None
EvCheck(t) ==
    /\ Running /\ pc[t] = "ev_check"
    /\ tmp' = [tmp EXCEPT ![t] = 0]
    /\ IF ThresholdReached(anomaly_count)
       THEN /\ killCount' = killCount + 1
            /\ result' = result
            /\ Goto(t, "ks_log")
       ELSE /\ killCount' = killCount
            /\ result' = [result EXCEPT ![t] = ReturnNone]
            /\ Goto(t, "idle")
    /\ UNCHANGED << variant, cfgReadable, rawConfig, coreInitOk, proc, exitStatus,
                    obj, attrs, config, is_active, anomaly_count, args,
                    ksTrace, heartbeat, succs, fails, releaseCount, coreInits,
                    interrupted, succAfterFail >>

ExecuteVault(t) ==
    \/ \E d \in Data, k \in PublicKeys : ExecuteVaultCall(t, d, k)
    \/ EvCoreSuccess(t)
    \/ EvVaultRaises(t)
    \/ EvLoadCount(t)
    \/ EvStoreCount(t)
    \/ EvCheck(t)

-----------------------------------------------------------------------------
(* NebulaPrime._kill_switch *)

\* self.logger.critical("EMERGENCY: ...")
KsLog(t) ==
    /\ Running /\ pc[t] = "ks_log"
    /\ ksTrace' = [ksTrace EXCEPT ![t] = Append(@, "critical")]
    /\ Goto(t, "ks_lock")
    /\ UNCHANGED << variant, cfgReadable, rawConfig, coreInitOk, proc, exitStatus,
                    obj, attrs, config, is_active, anomaly_count, tmp, args,
                    result, heartbeat, succs, fails, killCount, releaseCount,
                    coreInits, interrupted, succAfterFail >>

\* a kill switch that releases the handle without first leaving ACTIVE
KsLockSkipped(t) ==
    /\ Running /\ pc[t] = "ks_lock"
    /\ is_active' = is_active
    /\ ksTrace' = [ksTrace EXCEPT ![t] = Append(@, "locked")]
    /\ Goto(t, "ks_hasattr")
    /\ UNCHANGED << variant, cfgReadable, rawConfig, coreInitOk, proc, exitStatus,
                    obj, attrs, config, anomaly_count, tmp, args, result,
                    heartbeat, succs, fails, killCount, releaseCount, coreInits,
                    interrupted, succAfterFail >>

\* self.is_active = False
KsLock(t) ==
    /\ Running /\ pc[t] = "ks_lock"
    /\ is_active' = FALSE
    /\ ksTrace' = [ksTrace EXCEPT ![t] = Append(@, "locked")]
    /\ Goto(t, "ks_hasattr")
    /\ UNCHANGED << variant, cfgReadable, rawConfig, coreInitOk, proc, exitStatus,
                    obj, attrs, config, anomaly_count, tmp, args, result,
                    heartbeat, succs, fails, killCount, releaseCount, coreInits,
                    interrupted, succAfterFail >>

\* if hasattr(self, 'engine'):
KsHasattr(t) ==
    /\ Running /\ pc[t] = "ks_hasattr"
    /\ Goto(t, IF "engine" \in attrs THEN "ks_del" ELSE "ks_clear")
    /\ UNCHANGED << variant, cfgReadable, rawConfig, coreInitOk, proc, exitStatus,
                    obj, attrs, config, is_active, anomaly_count, tmp, args,
                    result, ksTrace, heartbeat, succs, fails, killCount,
                    releaseCount, coreInits, interrupted, succAfterFail >>

\* del self.engine
KsDel(t) ==
    /\ Running /\ pc[t] = "ks_del"
    /\ IF "engine" \in attrs
       THEN /\ attrs' = attrs \ {"engine"}
            /\ releaseCount' = releaseCount + 1
            /\ ksTrace' = [ksTrace EXCEPT ![t] = Append(@, "release")]
            /\ result' = result
            /\ Goto(t, "ks_clear")
       ELSE /\ Raise(t, "AttributeError")
            /\ result' = [result EXCEPT ![t] = Raised("AttributeError")]
            /\ UNCHANGED << attrs, releaseCount, ksTrace >>
    /\ UNCHANGED << variant, cfgReadable, rawConfig, coreInitOk, proc, exitStatus,
                    obj, config, is_active, anomaly_count, tmp, args, heartbeat,
                    succs, fails, killCount, coreInits, interrupted,
                    succAfterFail >>

\* self.config.clear(); gc.collect()
KsClear(t) ==
    /\ Running /\ pc[t] = "ks_clear"
    /\ config' = EmptyMap
    /\ ksTrace' = [ksTrace EXCEPT ![t] = Append(@, "clear")]
    /\ Goto(t, "ks_exit")
    /\ UNCHANGED << variant, cfgReadable, rawConfig, coreInitOk, proc, exitStatus,
                    obj, attrs, is_active, anomaly_count, tmp, args, result,
                    heartbeat, succs, fails, killCount, releaseCount, coreInits,
                    interrupted, succAfterFail >>

\* exit("NODE_LOCKED"): raises SystemExit out of execute_vault
KsExit(t) ==
    /\ Running /\ pc[t] = "ks_exit"
    /\ ksTrace' = [ksTrace EXCEPT ![t] = Append(@, "exit")]
    /\ Raise(t, "SystemExit(NODE_LOCKED)")
    /\ result' = [result EXCEPT ![t] = Raised("SystemExit(NODE_LOCKED)")]
    /\ UNCHANGED << variant, cfgReadable, rawConfig, coreInitOk, proc, exitStatus,
                    obj, attrs, config, is_active, anomaly_count, tmp, args,
                    heartbeat, succs, fails, killCount, releaseCount, coreInits,
                    interrupted, succAfterFail >>

KillSwitch(t) ==
    \/ KsLog(t)
    \/ KsLock(t)
    \/ KsHasattr(t)
    \/ KsDel(t)
    \/ KsClear(t)
    \/ KsExit(t)

-----------------------------------------------------------------------------
(* NebulaPrime.emit_heartbeat, called directly ("hb_") or by run_forever    *)
(* ("rf_hb_"); only the full variant has the method                         *)

\* a direct call by the holder of the object
EmitHeartbeatCall(t) ==
    /\ Running /\ obj = "bound" /\ pc[t] = "idle" /\ variant = "full"
    /\ Goto(t, "hb_build")
    /\ UNCHANGED << variant, cfgReadable, rawConfig, coreInitOk, proc, exitStatus,
                    obj, attrs, config, is_active, anomaly_count, tmp, args,
                    result, ksTrace, heartbeat, succs, fails, killCount,
                    releaseCount, coreInits, interrupted, succAfterFail >>

\* payload = {"node": self.config["node_id"], "status": ..., "anomalies": ...}
EmitHeartbeatBuild(t) ==
    /\ Running /\ pc[t] \in {"hb_build", "rf_hb_build"}
    /\ IF "node_id" \in DOMAIN config
       THEN /\ heartbeat' = [node |-> config["node_id"],
                             status |-> IF is_active THEN "ACTIVE" ELSE "COMPROMISED",
                             anomalies |-> anomaly_count]
            /\ Goto(t, IF pc[t] = "hb_build" THEN "hb_log" ELSE "rf_hb_log")
       ELSE /\ heartbeat' = heartbeat
            /\ Raise(t, "KeyError")
    /\ UNCHANGED << variant, cfgReadable, rawConfig, coreInitOk, proc, exitStatus,
                    obj, attrs, config, is_active, anomaly_count, tmp, args,
                    result, ksTrace, succs, fails, killCount, releaseCount,
                    coreInits, interrupted, succAfterFail >>

\* self.logger.info(f"... {self.config['heartbeat_url']}"); return True
EmitHeartbeatLog(t) ==
    /\ Running /\ pc[t] \in {"hb_log", "rf_hb_log"}
    /\ IF "heartbeat_url" \in DOMAIN config
       THEN Goto(t, IF pc[t] = "hb_log" THEN "idle" ELSE "rf_sleep")
       ELSE Raise(t, "KeyError")
    /\ UNCHANGED << variant, cfgReadable, rawConfig, coreInitOk, proc, exitStatus,
                    obj, attrs, config, is_active, anomaly_count, tmp, args,
                    result, ksTrace, heartbeat, succs, fails, killCount,
                    releaseCount, coreInits, interrupted, succAfterFail >>

EmitHeartbeat(t) ==
    \/ EmitHeartbeatCall(t)
    \/ EmitHeartbeatBuild(t)
    \/ EmitHeartbeatLog(t)

-----------------------------------------------------------------------------
(* NebulaPrime.run_forever *)

InTry == {"rf_loop", "rf_hb_build", "rf_hb_log", "rf_sleep"}

\* self.logger.info("Entering continuous operational mode...")
RunForeverCall(t) ==
    /\ Running /\ obj = "bound" /\ pc[t] = "idle"
    /\ Goto(t, "rf_loop")
    /\ UNCHANGED << variant, cfgReadable, rawConfig, coreInitOk, proc, exitStatus,
                    obj, attrs, config, is_active, anomaly_count, tmp, args,
                    result, ksTrace, heartbeat, succs, fails, killCount,
                    releaseCount, coreInits, interrupted, succAfterFail >>

\* while self.is_active:
RfLoop(t) ==
    /\ Running /\ pc[t] = "rf_loop"
    /\ Goto(t, IF is_active
               THEN (IF variant = "full" THEN "rf_hb_build" ELSE "rf_sleep")
               ELSE "idle")
    /\ UNCHANGED << variant, cfgReadable, rawConfig, coreInitOk, proc, exitStatus,
                    obj, attrs, config, is_active, anomaly_count, tmp, args,
                    result, ksTrace, heartbeat, succs, fails, killCount,
                    releaseCount, coreInits, interrupted, succAfterFail >>

\* time.sleep(NebulaConfig.HEARTBEAT_INTERVAL) elapses
RfSleep(t) ==
    /\ Running /\ pc[t] = "rf_sleep"
    /\ Goto(t, "rf_loop")
    /\ UNCHANGED << variant, cfgReadable, rawConfig, coreInitOk, proc, exitStatus,
                    obj, attrs, config, is_active, anomaly_count, tmp, args,
                    result, ksTrace, heartbeat, succs, fails, killCount,
                    releaseCount, coreInits, interrupted, succAfterFail >>

\* an interrupt handler that writes True instead of False
RfKeyboardInterruptActivates(t) ==
    /\ Running /\ t = "main" /\ pc[t] \in InTry
    /\ is_active' = TRUE
    /\ interrupted' = TRUE
    /\ Goto(t, "idle")
    /\ UNCHANGED << variant, cfgReadable, rawConfig, coreInitOk, proc, exitStatus,
                    obj, attrs, config, anomaly_count, tmp, args, result,
                    ksTrace, heartbeat, succs, fails, killCount, releaseCount,
                    coreInits, succAfterFail >>

\* an interrupt handler that goes through the kill switch
RfKeyboardInterruptKills(t) ==
    /\ Running /\ t = "main" /\ pc[t] \in InTry
    /\ is_active' = is_active
    /\ interrupted' = TRUE
    /\ killCount' = killCount + 1
    /\ Goto(t, "ks_log")
    /\ UNCHANGED << variant, cfgReadable, rawConfig, coreInitOk, proc, exitStatus,
                    obj, attrs, config, anomaly_count, tmp, args, result,
                    ksTrace, heartbeat, succs, fails, releaseCount,
                    coreInits, succAfterFail >>

\* except KeyboardInterrupt: self.is_active = False  (main thread only)
RfKeyboardInterrupt(t) ==
    /\ Running /\ t = "main" /\ pc[t] \in InTry
    /\ is_active' = FALSE
    /\ interrupted' = TRUE
    /\ Goto(t, "idle")
    /\ UNCHANGED << variant, cfgReadable, rawConfig, coreInitOk, proc, exitStatus,
                    obj, attrs, config, anomaly_count, tmp, args, result,
                    ksTrace, heartbeat, succs, fails, killCount, releaseCount,
                    coreInits, succAfterFail >>

RunForever(t) ==
    \/ RunForeverCall(t)
    \/ RfLoop(t)
    \/ RfSleep(t)
    \/ RfKeyboardInterrupt(t)

-----------------------------------------------------------------------------
(* The callers: what happens to an exception that leaves a handler, and the *)
(* end of the main script                                                   *)

\* the caller has an except clause for it and goes on
CallerCatches(t) ==
    /\ Running /\ pc[t] = "raised"
    /\ pc' = [pc EXCEPT ![t] = "idle"]
    /\ exc' = [exc EXCEPT ![t] = "none"]
    /\ UNCHANGED << variant, cfgReadable, rawConfig, coreInitOk, proc, exitStatus,
                    obj, attrs, config, is_active, anomaly_count, tmp, args,
                    result, ksTrace, heartbeat, succs, fails, killCount,
                    releaseCount, coreInits, interrupted, succAfterFail >>

\* nobody catches it: on the main thread the interpreter exits, any other
\* thread just ends
Uncaught(t) ==
    /\ Running /\ pc[t] = "raised"
    /\ IF t = "main"
       THEN /\ proc' = "exited"
            /\ exitStatus' = ExitStatusOf(exc[t])
            /\ UNCHANGED << pc, exc >>
       ELSE /\ pc' = [pc EXCEPT ![t] = "dead"]
            /\ UNCHANGED << proc, exitStatus, exc >>
    /\ UNCHANGED << variant, cfgReadable, rawConfig, coreInitOk, obj, attrs,
                    config, is_active, anomaly_count, tmp, args, result, ksTrace,
                    heartbeat, succs, fails, killCount, releaseCount, coreInits,
                    interrupted, succAfterFail >>

\* the main script runs off its end (after nebula.run_forever() returned)
MainReturns(t) ==
    /\ Running /\ t = "main" /\ obj = "bound" /\ pc[t] = "idle"
    /\ proc' = "exited"
    /\ exitStatus' = 0
    /\ UNCHANGED << variant, cfgReadable, rawConfig, coreInitOk, obj, pc, exc,
                    attrs, config, is_active, anomaly_count, tmp, args, result,
                    ksTrace, heartbeat, succs, fails, killCount, releaseCount,
                    coreInits, interrupted, succAfterFail >>

Caller(t) ==
    \/ CallerCatches(t)
    \/ Uncaught(t)
    \/ MainReturns(t)

-----------------------------------------------------------------------------

Step(t) ==
    \/ Construct(t)
    \/ ExecuteVault(t)
    \/ KillSwitch(t)
    \/ EmitHeartbeat(t)
    \/ RunForever(t)
    \/ Caller(t)

\* one sequential control thread
Next == \E t \in SeqThreads : Step(t)

Spec == Init /\ [][Next]_vars

\* the object is shared by two threads of the process; the full variant
\* started from the configuration written by the quick-launch block
InitConc ==
    /\ Init
    /\ variant = "full"
    /\ cfgReadable
    /\ rawConfig = [k \in REQUIRED_KEYS |-> "user"]
    /\ coreInitOk

NextConc == \E t \in Threads : Step(t)

SpecConc == InitConc /\ [][NextConc]_vars

TypeOK ==
    /\ variant \in Variants
    /\ proc \in {"running", "exited"}
    /\ obj \in {"none", "bound"}
    /\ is_active \in BOOLEAN
    /\ anomaly_count \in Nat
    /\ attrs \subseteq {"config", "logger", "is_active", "anomaly_count", "engine"}

-----------------------------------------------------------------------------
(* Vocabulary of the properties *)

KillSwitchOrder == << "critical", "locked", "release", "clear", "exit" >>

\* thread t has run _kill_switch up to and including self.is_active = False
LockedBy(t) == Len(ksTrace[t]) >= 2

\* thread t has run _kill_switch to its last statement
KillSwitchDone(t) == Len(ksTrace[t]) = Len(KillSwitchOrder)

\* no handler is in the middle of its body on thread t
Quiescent(t) == pc[t] \in {"idle", "raised", "dead"}

\* after the merge over the defaults a required key is absent
RequiredAbsent ==
    \E k \in {"node_id", "hw_id"} :
        k \notin DOMAIN rawConfig /\ k \notin DOMAIN DEFAULTS[variant]

-----------------------------------------------------------------------------
(* Properties *)

\* C1: in the full variant with one sequential caller, the failure that
\* brings anomaly_count to MAX_ANOMALY_SCORE invokes _kill_switch, and it is
\* invoked at most once; when the kill switch has run, is_active is false
\* and the engine attribute is gone; once the kill switch was invoked no
\* step invokes vault_execute again.
C1_KillSwitchOnce ==
    /\ [](killCount <= 1)
    /\ []((variant = "full" /\ anomaly_count = MAX_ANOMALY_SCORE /\ pc["main"] # "ev_check")
            => killCount = 1)
    /\ [](KillSwitchDone("main") => (~is_active /\ "engine" \notin attrs))
    /\ [][killCount >= 1 => (succs' = succs /\ fails' = fails)]_vars

C1_Witness ==
    /\ KillSwitchDone("main")
    /\ fails = MAX_ANOMALY_SCORE
    /\ pc["main"] = "idle"
    /\ result["main"] = ReturnNone

\* C2: in the full variant, after N < MAX_ANOMALY_SCORE execute_vault calls
\* that all failed (no success, no operator interrupt), with no call in
\* flight, the node is active and anomaly_count = N.
C2_BelowThresholdActive ==
    (/\ variant = "full" /\ obj = "bound" /\ pc["main"] = "idle"
     /\ succs = 0 /\ ~interrupted /\ fails < MAX_ANOMALY_SCORE)
    => (is_active /\ anomaly_count = fails)

C2_Witness ==
    /\ variant = "full" /\ obj = "bound" /\ pc["main"] = "idle"
    /\ succs = 0 /\ ~interrupted
    /\ fails = MAX_ANOMALY_SCORE - 1
    /\ is_active /\ anomaly_count = MAX_ANOMALY_SCORE - 1

\* C3: a step in which vault_execute succeeds leaves anomaly_count and
\* is_active unchanged; in the full variant anomaly_count is the cumulative
\* number of failures whatever successes came in between, and the kill
\* switch has been invoked only when that number is MAX_ANOMALY_SCORE.
C3_SuccessKeepsCount ==
    /\ [][succs' # succs => (anomaly_count' = anomaly_count /\ is_active' = is_active)]_vars
    /\ []((variant = "full" /\ pc["main"] \notin {"ev_load", "ev_store"})
            => anomaly_count = fails)
    /\ [](killCount >= 1 => fails = MAX_ANOMALY_SCORE)

C3_Witness ==
    /\ succAfterFail
    /\ succs = MaxSuccs
    /\ KillSwitchDone("main")
    /\ anomaly_count = MAX_ANOMALY_SCORE

\* C4: in both variants a failure of the vault core is absorbed: nothing but
\* the kill switch's own process termination leaves execute_vault as an
\* exception, and outside the increment itself anomaly_count equals the
\* number of failures (each one was counted exactly once).
C4_FailureAbsorbed ==
    /\ \A t \in SeqThreads :
          result[t].kind = "raise" => result[t].status = "SystemExit(NODE_LOCKED)"
    /\ pc["main"] \notin {"ev_load", "ev_store"} => anomaly_count = fails

\* C5: where the object can be observed (no handler in the middle of its
\* body), the engine attribute exists if and only if is_active is true.
C5_HandleIffActive ==
    Quiescent("main") => (("engine" \in attrs) <=> is_active)

\* C6: once a kill switch has set is_active to false it stays false, and
\* once the engine attribute is deleted no step creates it again.
C6_LockedTerminal ==
    /\ []((\E t \in Threads : LockedBy(t)) => ~is_active)
    /\ [][((\E t \in Threads : LockedBy(t)) /\ "engine" \notin attrs)
            => "engine" \notin attrs']_vars

C6_Witness ==
    /\ KillSwitchDone("main")
    /\ interrupted
    /\ pc["main"] = "idle"
    /\ ~is_active /\ "engine" \notin attrs

\* C7: the side effects of a _kill_switch call always form a prefix of
\* critical log, is_active = False, del engine, config.clear(), exit; the
\* engine is deleted and the configuration cleared only when is_active is
\* already false, and SystemExit is raised only after all of them.
C7_KillSwitchOrder ==
    /\ \A t \in Threads :
          /\ Len(ksTrace[t]) <= Len(KillSwitchOrder)
          /\ ksTrace[t] = SubSeq(KillSwitchOrder, 1, Len(ksTrace[t]))
          /\ exc[t] = "SystemExit(NODE_LOCKED)" => KillSwitchDone(t)
    /\ releaseCount >= 1 => ~is_active
    /\ (obj = "bound" /\ config = EmptyMap) => (~is_active /\ "engine" \notin attrs)

C7_Witness ==
    /\ ksTrace["main"] = KillSwitchOrder
    /\ exc["main"] = "SystemExit(NODE_LOCKED)"
    /\ releaseCount = 1 /\ config = EmptyMap

\* C8: with two concurrent callers the kill switch is invoked at most once,
\* the engine is deleted at most once, no kill switch call fails on an
\* engine that another call deleted, and when both callers are back and
\* MAX_ANOMALY_SCORE failures have happened the kill switch was invoked.
C8_CriticalSection ==
    /\ killCount <= 1
    /\ releaseCount <= 1
    /\ \A t \in Threads : exc[t] # "AttributeError"
    /\ ((\A t \in Threads : Quiescent(t)) /\ fails >= MAX_ANOMALY_SCORE) => killCount >= 1

\* C9: in both variants, when a required key is absent after the merge,
\* construction never gets past validation: the node never is active, the
\* vault core constructor is never called, no engine attribute and no
\* object exist, and construction ends in the configuration error.
C9_MissingKeysRejected ==
    RequiredAbsent =>
        /\ ~is_active
        /\ coreInits = 0
        /\ "engine" \notin attrs
        /\ obj = "none"
        /\ pc["main"] \in {"init_load", "init_validate", "raised", "idle"}
        /\ exc["main"] \in {"none", "SystemExit(1)", "ValueError", "LoadError"}

C9_Witness ==
    /\ RequiredAbsent /\ cfgReadable
    /\ "node_id" \in DOMAIN rawConfig
    /\ pc["main"] = "raised"
    /\ exc["main"] = (IF variant = "full" THEN "SystemExit(1)" ELSE "ValueError")
    /\ proc = "exited"

\* C10: when the vault core constructor fails, is_active is false in every
\* state of the run, the caller never gets an object, and the constructor is
\* called only once.
C10_CoreInitFailureNeverActive ==
    ~coreInitOk => (~is_active /\ obj = "none" /\ coreInits <= 1 /\ "engine" \notin attrs)

C10_Witness ==
    /\ ~coreInitOk
    /\ coreInits = 1
    /\ pc["main"] = "raised"
    /\ exc["main"] = "InitError"
    /\ ~is_active

\* C11: when the process ends by the kill switch's exit("NODE_LOCKED"), its
\* exit status differs from the status of an operator-interrupt shutdown (0,
\* the script running off its end) and from the status of the fatal
\* configuration-error exits (exit(1)).
C11_DistinguishedExit ==
    (proc = "exited" /\ exc["main"] = "SystemExit(NODE_LOCKED)") =>
        (exitStatus # 0 /\ exitStatus # ExitStatusOf("SystemExit(1)"))

\* C12: the step in which run_forever handles a KeyboardInterrupt returns
\* to the caller with is_active false and does not enter _kill_switch: the
\* kill switch count and trace, anomaly_count, the configuration and the
\* attributes are unchanged and the process keeps running; after an
\* interrupt on a node that was not locked, no later step invokes the kill
\* switch, changes anomaly_count or the configuration, or ends the process
\* by the lockout exit.
C12_InterruptNoKillSwitch ==
    /\ [][(interrupted' /\ ~interrupted) =>
            (/\ pc'["main"] = "idle"
             /\ ~is_active'
             /\ killCount' = killCount
             /\ ksTrace' = ksTrace
             /\ anomaly_count' = anomaly_count
             /\ config' = config
             /\ attrs' = attrs
             /\ proc' = "running")]_vars
    /\ [][(interrupted /\ killCount = 0) =>
            (killCount' = 0 /\ anomaly_count' = anomaly_count /\ config' = config)]_vars
    /\ []((interrupted /\ killCount = 0) => exc["main"] # "SystemExit(NODE_LOCKED)")

C12_Witness ==
    /\ interrupted
    /\ killCount = 0
    /\ anomaly_count = 2
    /\ heartbeat.status = "ACTIVE"
    /\ config # EmptyMap
    /\ proc = "exited" /\ exitStatus = 0

\* C13: a node stopped by an operator interrupt and never locked is in a
\* state distinct from LOCKED: a heartbeat built from it does not carry the
\* status label of the anomaly lockout ("COMPROMISED").
C13_InterruptDistinctFromLocked ==
    (interrupted /\ killCount = 0) => heartbeat.status # "COMPROMISED"

\* C14: emit_heartbeat builds a record in every state in which it is called
\* (it never fails), and the record it has just built carries the current
\* anomaly_count and the status of the current state: ACTIVE on a node that
\* was neither locked nor stopped, COMPROMISED once the kill switch was
\* invoked.
C14_HeartbeatReflectsState ==
    /\ \A t \in SeqThreads : exc[t] # "KeyError"
    /\ \A t \in SeqThreads :
          pc[t] \in {"hb_log", "rf_hb_log"} =>
              /\ heartbeat.anomalies = anomaly_count
              /\ heartbeat.status = (IF is_active THEN "ACTIVE" ELSE "COMPROMISED")
              /\ (killCount = 0 /\ ~interrupted) => heartbeat.status = "ACTIVE"
              /\ killCount >= 1 => heartbeat.status = "COMPROMISED"

\* C15: on a constructed node whose is_active is false, execute_vault does
\* nothing and returns None, in both variants: with one sequential caller
\* the call never gets to the vault core, no step changes the numbers of
\* vault_execute invocations, anomaly_count, the kill switch count or
\* is_active, and whatever a call gives its caller is None.
C15_InactiveNoOp ==
    /\ [](pc["main"] = "ev_try" => is_active)
    /\ [][(obj = "bound" /\ ~is_active) =>
            (/\ succs' = succs /\ fails' = fails
             /\ anomaly_count' = anomaly_count
             /\ killCount' = killCount
             /\ ~is_active')]_vars
    /\ [][(obj = "bound" /\ ~is_active /\ pc["main"] = "idle"
           /\ result'["main"] # result["main"])
            => result'["main"] = ReturnNone]_vars

C15_Witness ==
    /\ variant = "free"
    /\ interrupted /\ ~is_active
    /\ succs = 1
    /\ pc["main"] = "idle"
    /\ result["main"] = ReturnNone

\* C16: anomaly_count is never negative and no step decreases it, whatever
\* the operation the step belongs to.
C16_CountMonotonic ==
    /\ [](anomaly_count >= 0)
    /\ [][anomaly_count' >= anomaly_count]_vars

C16_Witness ==
    /\ anomaly_count = 3
    /\ succAfterFail
    /\ interrupted
    /\ heartbeat.anomalies = 3
    /\ pc["main"] = "idle"

\* C17: with the deterministic vault core stub, what a successful
\* execute_vault call returns is determined by its data and public key
\* alone: status SUCCESS, the stub's ciphertext for them as payload and the
\* stub's audit reference, whatever calls, failures or heartbeats came
\* before; so two calls with identical arguments return identical results.
C17_SuccessDeterminedByInputs ==
    [][\A t \in SeqThreads :
          (pc[t] = "ev_try" /\ succs' # succs) =>
              /\ args[t].data \in Data /\ args[t].pk \in PublicKeys
              /\ result'[t].kind = "return"
              /\ result'[t].status = "SUCCESS"
              /\ result'[t].payload = VaultExecute(args[t].data, args[t].pk).ct
              /\ result'[t].audit_ref = VaultExecute(args[t].data, args[t].pk).ref]_vars

C17_Witness ==
    /\ succs = 2
    /\ fails >= 1
    /\ heartbeat.anomalies >= 1
    /\ is_active
    /\ pc["main"] = "idle"
    /\ result["main"].status = "SUCCESS"
    /\ result["main"].payload = VaultExecute("d2", "k1").ct

-----------------------------------------------------------------------------
(* The scenario of a vault core that fails on every call: the single        *)
(* control thread constructs the node and keeps calling execute_vault, and  *)
(* vault_execute never returns.  The thread keeps executing the statements  *)
(* of the handler it is in, and the caller keeps calling, hence the weak     *)
(* fairness on the steps of the scenario.                                   *)

NextFailing ==
    \E t \in SeqThreads :
        \/ Construct(t)
        \/ \E d \in Data, k \in PublicKeys : ExecuteVaultCall(t, d, k)
        \/ EvVaultRaises(t)
        \/ EvLoadCount(t)
        \/ EvStoreCount(t)
        \/ EvCheck(t)
        \/ KillSwitch(t)
        \/ CallerCatches(t)
        \/ Uncaught(t)

SpecFailing == Init /\ [][NextFailing]_vars /\ WF_vars(NextFailing)

\* C18: in the full variant, when the vault core fails on every call and the
\* caller keeps calling, a constructed node eventually is locked (is_active
\* false, kill switch run to its lock statement); the vault core is invoked
\* at most MAX_ANOMALY_SCORE times, and exactly that often once the node is
\* locked.
C18_FailClosed ==
    /\ (variant = "full" /\ obj = "bound")
          ~> (~is_active /\ LockedBy("main") /\ fails = MAX_ANOMALY_SCORE)
    /\ [](variant = "full" => succs + fails <= MAX_ANOMALY_SCORE)
    /\ []((variant = "full" /\ LockedBy("main")) => succs + fails = MAX_ANOMALY_SCORE)

C18_Witness ==
    /\ variant = "full"
    /\ succs = 0 /\ fails = MAX_ANOMALY_SCORE
    /\ ~is_active /\ "engine" \notin attrs
    /\ exc["main"] = "SystemExit(NODE_LOCKED)"
    /\ proc = "exited"

\* C19 (as stated): with one sequential caller anomaly_count stays within
\* 0..MAX_ANOMALY_SCORE, it equals MAX_ANOMALY_SCORE only in states where
\* is_active is false, and an active node with no call in flight has
\* anomaly_count < MAX_ANOMALY_SCORE.
C19_BoundOnlyWhenInactive ==
    /\ 0 <= anomaly_count /\ anomaly_count <= MAX_ANOMALY_SCORE
    /\ anomaly_count = MAX_ANOMALY_SCORE => ~is_active
    /\ (is_active /\ pc["main"] = "idle") => anomaly_count < MAX_ANOMALY_SCORE

\* C19 (amended): with one sequential caller anomaly_count stays within
\* 0..MAX_ANOMALY_SCORE; it equals MAX_ANOMALY_SCORE only in states where
\* is_active is false or the failing call that stored it is still between
\* its increment and the kill switch's `self.is_active = False` (threshold
\* test, critical log); an active node with no call in flight has
\* anomaly_count < MAX_ANOMALY_SCORE.
C19_BoundAmended ==
    /\ 0 <= anomaly_count /\ anomaly_count <= MAX_ANOMALY_SCORE
    /\ anomaly_count = MAX_ANOMALY_SCORE =>
          (~is_active \/ pc["main"] \in {"ev_check", "ks_log", "ks_lock"})
    /\ (is_active /\ pc["main"] = "idle") => anomaly_count < MAX_ANOMALY_SCORE

C19_Witness ==
    /\ anomaly_count = MAX_ANOMALY_SCORE
    /\ is_active
    /\ pc["main"] = "ks_lock"
    /\ ksTrace["main"] = << "critical" >>

\* C20: on runs with a valid configuration in which the vault core never
\* fails, both variants obey one and the same law, which does not mention
\* the variant, so they go through the same is_active values and return
\* the same results: is_active is true exactly from the end of construction
\* to the operator interrupt, and a change of what execute_vault gives its
\* caller is either the entry of a call on an active node, None on an
\* inactive node, or SUCCESS with the stub's ciphertext and audit reference
\* for the arguments of the call.
C20_VariantsAgree ==
    /\ []((fails = 0 /\ cfgReadable /\ ~RequiredAbsent)
            => (is_active <=> (obj = "bound" /\ ~interrupted)))
    /\ [][\A t \in SeqThreads :
            (fails = 0 /\ fails' = 0 /\ cfgReadable /\ ~RequiredAbsent
             /\ result'[t] # result[t]) =>
                \/ pc[t] = "idle" /\ is_active /\ result'[t] = NoResult
                \/ pc[t] = "idle" /\ ~is_active /\ result'[t] = ReturnNone
                \/ /\ pc[t] = "ev_try"
                   /\ result'[t] =
                        [kind |-> "return", status |-> "SUCCESS",
                         payload |-> VaultExecute(args[t].data, args[t].pk).ct,
                         audit_ref |-> VaultExecute(args[t].data, args[t].pk).ref]]_vars

C20_Witness ==
    /\ variant = "free"
    /\ fails = 0 /\ succs = 2
    /\ interrupted /\ ~is_active
    /\ result["main"].status = "SUCCESS"
    /\ pc["main"] = "idle"

====
